---- MODULE Spec2Model ----
(***************************************************************************)
(* Progressive-rehashing hash map of include/hashmap.hpp: HNode, HTab and   *)
(* HMap.  Nodes are caller-owned records addressed by a positive integer;   *)
(* node_next and node_hcode are the two HNode fields, node_key is the key   *)
(* the host record carries next to the embedded HNode.  A slot array is a   *)
(* function from 0..mask to node addresses, the null array is <<>>.         *)
(***************************************************************************)
EXTENDS Integers, Sequences, FiniteSets, TLC

VARIABLES
    newer,        \* HMap::newer  : [tab, mask, size]
    older,        \* HMap::older  : [tab, mask, size]
    migrate_pos,  \* HMap::migrate_pos
    node_next,    \* HNode::next of every node created so far
    node_hcode,   \* HNode::hcode of every node created so far
    node_key,     \* key of the host record that embeds the node
    removed,      \* nodes handed back to the caller by hm_delete
    fault,        \* "" or the assertion / memory fault the last calls ran into
    cycles,       \* number of trigger_rehashing calls so far
    since,        \* public calls completed since the last trigger_rehashing
    op,           \* the last public call: name, key, result and its cost
    hfn,          \* the host's hash function
    load,         \* number of nodes the host bulk-loads before it probes
    script,       \* calls the host still has to issue in a fixed order
    budget,       \* number of freely chosen calls the host may still issue
    call,         \* the public call in progress, Idle between calls
    freed         \* tables whose tab still points at storage clear() freed

vars == <<newer, older, migrate_pos, node_next, node_hcode, node_key, removed,
          fault, cycles, since, op, hfn, load, script, budget, call, freed>>

----------------------------------------------------------------------------
(* Program constants *)

kRehasingWork == 128
kMaxLoadFactor == 8
InitCap == 4
NULL == 0

(* Bounds of the exploration *)

MaxOps == 4
MaxStepOps == 2
ScenarioNodes == 33
ScenarioLookups == 5
DrainCap == 4096
DrainDeletes == 127
MaxTabNodes == 4
MaxTabHcode == 5

----------------------------------------------------------------------------
(* Bit operations on size_t / uint64_t values (all values stay far below   *)
(* 2^31, so no wrap-around is involved).                                   *)

RECURSIVE BitAnd(_, _)
BitAnd(a, b) ==
    IF a = 0 \/ b = 0 THEN 0
    ELSE (a % 2) * (b % 2) + 2 * BitAnd(a \div 2, b \div 2)

----------------------------------------------------------------------------
(* HTab *)

NullTab == <<>>

HTabZero == [tab |-> NullTab, mask |-> 0, size |-> 0]

InitAssert(n) == n > 0 /\ BitAnd(n - 1, n) = 0

HTab_init(n) == [tab |-> [i \in 0..(n - 1) |-> NULL], mask |-> n - 1, size |-> 0]

\* Bug: the slot is taken from the bits above the lowest one.
get_position_shift(t, hcode) == BitAnd(hcode \div 2, t.mask)

get_position(t, hcode) == BitAnd(hcode, t.mask)

\* A table with node linked at the head of its slot, and the heap with
\* node->next redirected to the former head.
HTab_insert(t, nx, node, hcode) ==
    LET pos == get_position(t, hcode)
        next == t.tab[pos]
    IN  [t    |-> [t EXCEPT !.tab[pos] = node, !.size = @ + 1],
         next |-> [nx EXCEPT ![node] = next]]

\* An incoming link: the slot t.tab[at] or the field next of node at.
SlotRef(pos) == [isSlot |-> TRUE, at |-> pos]
NextRef(node) == [isSlot |-> FALSE, at |-> node]
NoFrom == [isSlot |-> FALSE, at |-> NULL]

Deref(t, nx, from) == IF from.isSlot THEN t.tab[from.at] ELSE nx[from.at]

\* The host's equality callback: same key.
eq(cur, key) == node_key[cur] = key

\* Bug: a hash-code match is taken for a key match.
RECURSIVE ChainWalk_hash_only(_, _, _, _, _)
ChainWalk_hash_only(t, nx, from, khcode, key) ==
    LET cur == Deref(t, nx, from)
    IN  IF cur = NULL THEN NoFrom
        ELSE IF node_hcode[cur] = khcode THEN from
        ELSE ChainWalk_hash_only(t, nx, NextRef(cur), khcode, key)

RECURSIVE ChainWalk(_, _, _, _, _)
ChainWalk(t, nx, from, khcode, key) ==
    LET cur == Deref(t, nx, from)
    IN  IF cur = NULL THEN NoFrom
        ELSE IF node_hcode[cur] = khcode /\ eq(cur, key) THEN from
        ELSE ChainWalk(t, nx, NextRef(cur), khcode, key)

HTab_lookup(t, nx, khcode, key) ==
    IF t.tab = NullTab THEN NoFrom
    ELSE ChainWalk(t, nx, SlotRef(get_position(t, khcode)), khcode, key)

\* The number of chain nodes HTab::lookup compares before it returns.
RECURSIVE ChainScan(_, _, _, _, _)
ChainScan(t, nx, from, khcode, key) ==
    LET cur == Deref(t, nx, from)
    IN  IF cur = NULL THEN 0
        ELSE IF node_hcode[cur] = khcode /\ eq(cur, key) THEN 1
        ELSE 1 + ChainScan(t, nx, NextRef(cur), khcode, key)

\* Bug: the count is decremented but the incoming link is left as it was.
HTab_detach_stale(t, nx, from) ==
    [t |-> [t EXCEPT !.size = @ - 1], next |-> nx, node |-> Deref(t, nx, from)]

\* Bug: the node is unlinked but the count is not decremented.
HTab_detach_nocount(t, nx, from) ==
    LET node == Deref(t, nx, from)
    IN  [t    |-> IF from.isSlot THEN [t EXCEPT !.tab[from.at] = nx[node]] ELSE t,
         next |-> IF from.isSlot THEN nx ELSE [nx EXCEPT ![from.at] = nx[node]],
         node |-> node]

HTab_detach(t, nx, from) ==
    LET node == Deref(t, nx, from)
    IN  [t    |-> IF from.isSlot
                  THEN [t EXCEPT !.tab[from.at] = nx[node], !.size = @ - 1]
                  ELSE [t EXCEPT !.size = @ - 1],
         next |-> IF from.isSlot THEN nx ELSE [nx EXCEPT ![from.at] = nx[node]],
         node |-> node]

\* The nodes of one chain, head first.
RECURSIVE Chain(_, _)
Chain(nx, node) == IF node = NULL THEN <<>> ELSE <<node>> \o Chain(nx, nx[node])

\* The nodes of slots lo..hi in slot order.
RECURSIVE ForeachRange(_, _, _, _)
ForeachRange(t, nx, lo, hi) ==
    IF lo > hi THEN <<>>
    ELSE IF lo = hi THEN Chain(nx, t.tab[lo])
    ELSE LET mid == (lo + hi) \div 2
         IN  ForeachRange(t, nx, lo, mid) \o ForeachRange(t, nx, mid + 1, hi)

\* The nodes foreach hands to a visitor that never asks to stop, in order:
\* for (i = 0; mask != 0 && i <= mask; i++) over the chain of slot i.
HTab_foreach(t, nx) == IF t.mask # 0 THEN ForeachRange(t, nx, 0, t.mask) ELSE <<>>

----------------------------------------------------------------------------
(* HMap.  M is the map together with the heap of next fields it links:     *)
(* [newer, older, migrate_pos, next, hcode], plus what the call observed:  *)
(* fault, cycles (trigger_rehashing calls), skips (empty slots stepped     *)
(* over by the call), moved (nodes relinked by the call) and ocap (the     *)
(* capacity of the older table when the call's migration step began).      *)

\* Bug: the quota is not enforced.
LoopCond_noquota(M) == M.older.size > 0

\* Bug: the quota is half of kRehasingWork.
LoopCond_half(M) == M.moved < kRehasingWork \div 2 /\ M.older.size > 0

\* The loop of help_rehashing runs while nwork < kRehasingWork and the older
\* table holds nodes; nwork is the call's count of moved nodes, M.moved.
LoopCond(M) == M.moved < kRehasingWork /\ M.older.size > 0

\* Bug: the head of the slot is linked into the newer table without being
\* detached from the older one.
LoopBody_nodetach(M) ==
    IF M.older.tab[M.migrate_pos] = NULL
    THEN [M EXCEPT !.migrate_pos = @ + 1, !.skips = @ + 1]
    ELSE LET node == M.older.tab[M.migrate_pos]
             i == HTab_insert(M.newer, M.next, node, M.hcode[node])
         IN  [M EXCEPT !.older.size = @ - 1, !.newer = i.t, !.next = i.next,
                       !.moved = @ + 1]

\* Bug: the cursor advances after every move, leaving the rest of the chain.
LoopBody_advance(M) ==
    IF M.migrate_pos > M.older.mask
    THEN [M EXCEPT !.fault = "older.tab read out of bounds"]
    ELSE IF M.older.tab[M.migrate_pos] = NULL
         THEN [M EXCEPT !.migrate_pos = @ + 1, !.skips = @ + 1]
         ELSE LET d == HTab_detach(M.older, M.next, SlotRef(M.migrate_pos))
                  i == HTab_insert(M.newer, d.next, d.node, M.hcode[d.node])
              IN  [M EXCEPT !.older = d.t, !.newer = i.t, !.next = i.next,
                            !.moved = @ + 1, !.migrate_pos = @ + 1]

\* One iteration: step over an empty slot, or move the head of the slot.
LoopBody(M) ==
    IF M.migrate_pos > M.older.mask
    THEN [M EXCEPT !.fault = "older.tab read out of bounds"]
    ELSE IF M.older.tab[M.migrate_pos] = NULL
         THEN [M EXCEPT !.migrate_pos = @ + 1, !.skips = @ + 1]
         ELSE LET d == HTab_detach(M.older, M.next, SlotRef(M.migrate_pos))
                  i == HTab_insert(M.newer, d.next, d.node, M.hcode[d.node])
              IN  [M EXCEPT !.older = d.t, !.newer = i.t, !.next = i.next,
                            !.moved = @ + 1]

\* At most n iterations of the loop from M, stopping when its condition
\* fails or a fault ends the call (the halves keep the evaluation shallow).
RECURSIVE HelpLoop(_, _)
HelpLoop(M, n) ==
    IF n = 0 \/ ~LoopCond(M) \/ M.fault # "" THEN M
    ELSE IF n = 1 THEN LoopBody(M)
    ELSE HelpLoop(HelpLoop(M, n \div 2), n - n \div 2)

\* The capacity of the older table, 0 when it is not allocated.
OlderCap(M) == IF M.older.tab = NullTab THEN 0 ELSE M.older.mask + 1

\* Bug: the drained older table is never freed.
Discard_keep(M) == M

\* The end of help_rehashing: the drained older table is freed and reset.
Discard(M) ==
    IF M.older.size = 0 /\ M.older.tab # NullTab
    THEN [M EXCEPT !.older = HTabZero]
    ELSE M

help_rehashing(M) ==
    \* every iteration adds one to nwork or to migrate_pos, so the loop
    \* ends or faults within kRehasingWork + capacity + 1 iterations
    Discard(HelpLoop([M EXCEPT !.ocap = OlderCap(M)],
                     kRehasingWork + M.older.mask + 2))

\* Bug: the new table is three times the size of the old one.
trigger_rehashing_triple(M) ==
    LET n == (M.newer.mask + 1) * 3
    IN  [M EXCEPT !.older = M.newer,
                  !.newer = HTab_init(n),
                  !.migrate_pos = 0,
                  !.cycles = @ + 1,
                  !.fault = IF M.older.tab # NullTab THEN "assert older.tab == nullptr"
                            ELSE IF ~InitAssert(n) THEN "assert power of 2"
                            ELSE @]

\* Bug: the cursor of the previous cycle is kept.
trigger_rehashing_noreset(M) ==
    LET n == (M.newer.mask + 1) * 2
    IN  [M EXCEPT !.older = M.newer,
                  !.newer = HTab_init(n),
                  !.cycles = @ + 1,
                  !.fault = IF M.older.tab # NullTab THEN "assert older.tab == nullptr"
                            ELSE IF ~InitAssert(n) THEN "assert power of 2"
                            ELSE @]

trigger_rehashing(M) ==
    LET n == (M.newer.mask + 1) * 2
    IN  [M EXCEPT !.older = M.newer,
                  !.newer = HTab_init(n),
                  !.migrate_pos = 0,
                  !.cycles = @ + 1,
                  !.fault = IF M.older.tab # NullTab THEN "assert older.tab == nullptr"
                            ELSE IF ~InitAssert(n) THEN "assert power of 2"
                            ELSE @]

\* Bug: the cycle starts only once the load exceeds the threshold.
InsertHead_late(M, node, hcode) ==
    LET M1 == IF M.newer.tab = NullTab
              THEN [M EXCEPT !.newer = HTab_init(InitCap)]
              ELSE M
        i  == HTab_insert(M1.newer, M1.next, node, hcode)
        M2 == [M1 EXCEPT !.newer = i.t, !.next = i.next]
        threshold == (M2.newer.mask + 1) * kMaxLoadFactor
    IN  IF M2.older.tab = NullTab /\ M2.newer.size > threshold
        THEN trigger_rehashing(M2)
        ELSE M2

\* insert up to its call of help_rehashing.
InsertHead(M, node, hcode) ==
    LET M1 == IF M.newer.tab = NullTab
              THEN [M EXCEPT !.newer = HTab_init(InitCap),
                             !.fault = IF InitAssert(InitCap) THEN @
                                       ELSE "assert power of 2"]
              ELSE M
        i  == HTab_insert(M1.newer, M1.next, node, hcode)
        M2 == [M1 EXCEPT !.newer = i.t, !.next = i.next]
        threshold == (M2.newer.mask + 1) * kMaxLoadFactor
    IN  IF M2.older.tab = NullTab /\ M2.newer.size >= threshold
        THEN trigger_rehashing(M2)
        ELSE M2

HMap_insert(M, node, hcode) == help_rehashing(InsertHead(M, node, hcode))

\* Bug: the older table is never probed.
Probe_newer_only(H, khcode, key) ==
    LET fn == HTab_lookup(H.newer, H.next, khcode, key)
    IN  IF fn # NoFrom THEN [from |-> fn, where |-> "newer"]
        ELSE [from |-> NoFrom, where |-> "none"]

\* The two probes of lookup and hm_delete on a map H whose migration step
\* has run: the incoming link found and the table it is in.
Probe(H, khcode, key) ==
    LET fn == HTab_lookup(H.newer, H.next, khcode, key)
        fo == HTab_lookup(H.older, H.next, khcode, key)
    IN  IF fn # NoFrom THEN [from |-> fn, where |-> "newer"]
        ELSE IF fo # NoFrom THEN [from |-> fo, where |-> "older"]
        ELSE [from |-> NoFrom, where |-> "none"]

\* What the probes cost: chain nodes compared, and the length of the chains
\* probed (the older table is probed only when the newer table misses).
TabCost(t, nx, khcode, key) ==
    IF t.tab = NullTab THEN [scanned |-> 0, chains |-> 0]
    ELSE LET pos == get_position(t, khcode)
         IN  [scanned |-> ChainScan(t, nx, SlotRef(pos), khcode, key),
              chains  |-> Len(Chain(nx, t.tab[pos]))]

ProbeCost(H, khcode, key) ==
    LET cn == TabCost(H.newer, H.next, khcode, key)
        co == IF HTab_lookup(H.newer, H.next, khcode, key) # NoFrom
              THEN [scanned |-> 0, chains |-> 0]
              ELSE TabCost(H.older, H.next, khcode, key)
    IN  [scanned |-> cn.scanned + co.scanned, chains |-> cn.chains + co.chains]

\* Bug: the node found is unlinked from its table.
LookupTail_detach(H, khcode, key) ==
    LET p == Probe(H, khcode, key)
        c == ProbeCost(H, khcode, key)
    IN  IF p.where = "newer"
        THEN LET d == HTab_detach(H.newer, H.next, p.from)
             IN  [m |-> [H EXCEPT !.newer = d.t, !.next = d.next], ret |-> d.node,
                  where |-> p.where, cost |-> c]
        ELSE IF p.where = "older"
        THEN LET d == HTab_detach(H.older, H.next, p.from)
             IN  [m |-> [H EXCEPT !.older = d.t, !.next = d.next], ret |-> d.node,
                  where |-> p.where, cost |-> c]
        ELSE [m |-> H, ret |-> NULL, where |-> p.where, cost |-> c]

\* lookup after its call of help_rehashing.
LookupTail(H, khcode, key) ==
    LET p == Probe(H, khcode, key)
    IN  [m     |-> H,
         ret   |-> IF p.where = "newer" THEN Deref(H.newer, H.next, p.from)
                   ELSE IF p.where = "older" THEN Deref(H.older, H.next, p.from)
                   ELSE NULL,
         where |-> p.where,
         cost  |-> ProbeCost(H, khcode, key)]

HMap_lookup(M, khcode, key) == LookupTail(help_rehashing(M), khcode, key)

\* hm_delete after its call of help_rehashing.
DeleteTail(H, khcode, key) ==
    LET p == Probe(H, khcode, key)
        c == ProbeCost(H, khcode, key)
    IN  IF p.where = "newer"
        THEN LET d == HTab_detach(H.newer, H.next, p.from)
             IN  [m |-> [H EXCEPT !.newer = d.t, !.next = d.next], ret |-> d.node,
                  where |-> p.where, cost |-> c]
        ELSE IF p.where = "older"
        THEN LET d == HTab_detach(H.older, H.next, p.from)
             IN  [m |-> [H EXCEPT !.older = d.t, !.next = d.next], ret |-> d.node,
                  where |-> p.where, cost |-> c]
        ELSE [m |-> H, ret |-> NULL, where |-> p.where, cost |-> c]

HMap_hm_delete(M, khcode, key) == DeleteTail(help_rehashing(M), khcode, key)

\* The set of nodes foreach hands to a visitor that never asks to stop.
RECURSIVE ChainSet(_, _)
ChainSet(nx, node) == IF node = NULL THEN {} ELSE {node} \cup ChainSet(nx, nx[node])

RECURSIVE VisitedRange(_, _, _, _)
VisitedRange(t, nx, lo, hi) ==
    IF lo > hi THEN {}
    ELSE IF lo = hi THEN ChainSet(nx, t.tab[lo])
    ELSE LET mid == (lo + hi) \div 2
         IN  VisitedRange(t, nx, lo, mid) \cup VisitedRange(t, nx, mid + 1, hi)

HTab_visited(t, nx) == IF t.mask # 0 THEN VisitedRange(t, nx, 0, t.mask) ELSE {}

HMap_size(M) == M.newer.size + M.older.size

HMap_foreach(M) == HTab_foreach(M.newer, M.next) \o HTab_foreach(M.older, M.next)

----------------------------------------------------------------------------
(* The host: it hashes keys, creates nodes and issues the public calls.    *)

HashFns == {"id", "half"}

\* "id": distinct keys have distinct hash codes; "half": keys 2j and 2j+1
\* share one hash code, so the equality callback decides between them.
Hash(f, key) == IF f = "id" THEN key ELSE key \div 2

\* Bulk-load sizes: the never-used map, and one node short of the load
\* threshold of a table of capacity 4, 32 and 64.
LoadPoints == {0, InitCap * kMaxLoadFactor - 1, 32 * kMaxLoadFactor - 1,
               64 * kMaxLoadFactor - 1}

AbsentKey == 1000
ProbeKey == 126

\* Scenario A: ScenarioNodes nodes with hash codes 0, 1, 2, ... are inserted
\* into an empty map, then ScenarioLookups lookups follow.
ScenarioA ==
    [hfn |-> "id", load |-> ScenarioNodes,
     script |-> [i \in 1..ScenarioLookups |-> [name |-> "lookup", key |-> AbsentKey]]]

\* Bulk-load sizes of the step-by-step runs.
StepLoadPoints == {0, InitCap * kMaxLoadFactor - 1, 64 * kMaxLoadFactor - 1}

Plans ==
    [hfn : HashFns, load : LoadPoints, script : {<<>>}] \cup {ScenarioA}

\* The map and heap as the calls see them.
Cur == [newer |-> newer, older |-> older, migrate_pos |-> migrate_pos,
        next |-> node_next, hcode |-> node_hcode, fault |-> fault,
        cycles |-> cycles, skips |-> 0, moved |-> 0, ocap |-> 0]

NextKey == Len(node_key)

Loading == Len(node_key) < load

Scripted(name) ==
    IF Head(script).name = name THEN {Head(script).key} ELSE {}

InsertKeys ==
    IF Loading THEN {NextKey}
    ELSE IF script # <<>> THEN Scripted("insert")
    ELSE IF budget > 0 THEN {NextKey, ProbeKey} ELSE {}

LookupKeys ==
    IF Loading THEN {}
    ELSE IF script # <<>> THEN Scripted("lookup")
    ELSE IF budget > 0 THEN {0, ProbeKey, AbsentKey} ELSE {}

DeleteKeys ==
    IF Loading THEN {}
    ELSE IF script # <<>> THEN Scripted("hm_delete")
    ELSE IF budget > 0 THEN {ProbeKey} ELSE {}

NoCost == [scanned |-> 0, chains |-> 0]

Idle == [name |-> "idle", key |-> 0, moved |-> 0, skips |-> 0, ocap |-> 0,
         osize |-> 0, triggered |-> FALSE]

\* The host issues a call: one step of its plan is used up.
Issued ==
    /\ call = Idle
    /\ fault = ""
    /\ script' = IF ~Loading /\ script # <<>> THEN Tail(script) ELSE script
    /\ budget' = IF ~Loading /\ script = <<>> THEN budget - 1 ELSE budget
    /\ UNCHANGED <<hfn, load>>

\* The dangling slot arrays after a step that leaves the map as R: the
\* pointer newer.tab is copied to older.tab by trigger_rehashing, and
\* older.tab is overwritten with nullptr when help_rehashing discards it.
StillFreed(R) ==
    LET carried == IF R.cycles # cycles
                   THEN IF "newer" \in freed THEN {"older"} ELSE {}
                   ELSE freed
    IN  {t \in carried : t = "older" => R.older.tab # NullTab}

\* The map and heap R as a step leaves them.
Leaves(R) ==
    /\ newer' = R.newer
    /\ older' = R.older
    /\ migrate_pos' = R.migrate_pos
    /\ node_next' = R.next
    /\ fault' = R.fault
    /\ cycles' = R.cycles
    /\ freed' = StillFreed(R)

\* A call returns ret: the map is as in R, and the host notes what happened.
Returned(R, name, key, ret, where, cost, triggered) ==
    /\ Leaves(R)
    /\ since' = IF triggered THEN 0 ELSE since + 1
    /\ op' = [name |-> name, key |-> key, ret |-> ret, where |-> where,
              skips |-> R.skips, moved |-> R.moved, ocap |-> R.ocap,
              scanned |-> cost.scanned, chains |-> cost.chains]

(* Every public call as one step *)

Insert(key) ==
    LET node == Len(node_key) + 1
        hcode == Hash(hfn, key)
        R == HMap_insert([Cur EXCEPT !.next = Append(node_next, NULL),
                                     !.hcode = Append(node_hcode, hcode)],
                         node, hcode)
    IN  /\ Issued
        /\ node_hcode' = Append(node_hcode, hcode)
        /\ node_key' = Append(node_key, key)
        /\ Returned(R, "insert", key, NULL, "none", NoCost, R.cycles # cycles)
        /\ UNCHANGED <<removed, call>>

Lookup(key) ==
    LET R == HMap_lookup(Cur, Hash(hfn, key), key)
    IN  /\ Issued
        /\ Returned(R.m, "lookup", key, R.ret, R.where, R.cost, FALSE)
        /\ UNCHANGED <<node_hcode, node_key, removed, call>>

Delete(key) ==
    LET R == HMap_hm_delete(Cur, Hash(hfn, key), key)
    IN  /\ Issued
        /\ removed' = IF R.ret = NULL THEN removed ELSE removed \cup {R.ret}
        /\ Returned(R.m, "hm_delete", key, R.ret, R.where, R.cost, FALSE)
        /\ UNCHANGED <<node_hcode, node_key, call>>

(* Every public call as a sequence of steps: the call begins, every       *)
(* iteration of the loop of help_rehashing is a step, and the call ends.  *)

\* The map and heap as the call in progress sees them.
CurCall == [Cur EXCEPT !.moved = call.moved, !.skips = call.skips,
                       !.ocap = call.ocap]

BeginInsert(key) ==
    LET node == Len(node_key) + 1
        hcode == Hash(hfn, key)
        R == InsertHead([Cur EXCEPT !.next = Append(node_next, NULL),
                                    !.hcode = Append(node_hcode, hcode)],
                        node, hcode)
    IN  /\ Issued
        /\ node_hcode' = Append(node_hcode, hcode)
        /\ node_key' = Append(node_key, key)
        /\ Leaves(R)
        /\ call' = [name |-> "insert", key |-> key, moved |-> 0, skips |-> 0,
                    ocap |-> OlderCap(R), osize |-> R.older.size,
                    triggered |-> R.cycles # cycles]
        /\ UNCHANGED <<removed, since, op>>

BeginProbe(name, key) ==
    /\ Issued
    /\ call' = [name |-> name, key |-> key, moved |-> 0, skips |-> 0,
                ocap |-> OlderCap(Cur), osize |-> older.size,
                triggered |-> FALSE]
    /\ UNCHANGED <<newer, older, migrate_pos, node_next, node_hcode, node_key,
                   removed, fault, cycles, since, op, freed>>

BeginLookup(key) == BeginProbe("lookup", key)

BeginDelete(key) == BeginProbe("hm_delete", key)

Migrate ==
    /\ call.name # "idle"
    /\ fault = ""
    /\ LoopCond(CurCall)
    /\ LET R == LoopBody(CurCall)
       IN  /\ Leaves(R)
           /\ call' = [call EXCEPT !.moved = R.moved, !.skips = R.skips]
    /\ UNCHANGED <<node_hcode, node_key, removed, since, op, hfn, load, script,
                   budget>>

EndCall ==
    /\ call.name # "idle"
    /\ fault = ""
    /\ ~LoopCond(CurCall)
    /\ LET H == Discard(CurCall)
           khcode == Hash(hfn, call.key)
       IN  \/ /\ call.name = "insert"
              /\ Returned(H, "insert", call.key, NULL, "none", NoCost,
                          call.triggered)
              /\ removed' = removed
           \/ /\ call.name = "lookup"
              /\ LET R == LookupTail(H, khcode, call.key)
                 IN  Returned(R.m, "lookup", call.key, R.ret, R.where, R.cost,
                              FALSE)
              /\ removed' = removed
           \/ /\ call.name = "hm_delete"
              /\ LET R == DeleteTail(H, khcode, call.key)
                 IN  /\ Returned(R.m, "hm_delete", call.key, R.ret, R.where,
                                 R.cost, FALSE)
                     /\ removed' = IF R.ret = NULL THEN removed
                                   ELSE removed \cup {R.ret}
    /\ call' = Idle
    /\ UNCHANGED <<node_hcode, node_key, hfn, load, script, budget>>

Empty ==
    /\ newer = HTabZero
    /\ older = HTabZero
    /\ migrate_pos = 0
    /\ node_next = <<>>
    /\ node_hcode = <<>>
    /\ node_key = <<>>
    /\ removed = {}
    /\ fault = ""
    /\ cycles = 0
    /\ since = 0
    /\ op = [name |-> "none", key |-> 0, ret |-> NULL, where |-> "none",
             skips |-> 0, moved |-> 0, ocap |-> 0, scanned |-> 0, chains |-> 0]
    /\ call = Idle
    /\ freed = {}

Init ==
    /\ Empty
    /\ \E plan \in Plans :
          /\ hfn = plan.hfn
          /\ load = plan.load
          /\ script = plan.script
    /\ budget = MaxOps

Next ==
    \/ \E key \in InsertKeys : Insert(key)
    \/ \E key \in LookupKeys : Lookup(key)
    \/ \E key \in DeleteKeys : Delete(key)

Spec == Init /\ [][Next]_vars

\* The same host, with the calls taken iteration by iteration.
InitStep ==
    /\ Empty
    /\ hfn \in HashFns
    /\ load \in StepLoadPoints
    /\ script = <<>>
    /\ budget = MaxStepOps

NextStep ==
    \/ \E key \in InsertKeys : BeginInsert(key)
    \/ \E key \in LookupKeys : BeginLookup(key)
    \/ \E key \in DeleteKeys : BeginDelete(key)
    \/ Migrate
    \/ EndCall

SpecStep == InitStep /\ [][NextStep]_vars

\* Drain scenario: the host fills the map until the table of DrainCap slots
\* starts to retire, deletes DrainDeletes keys that are still in the retiring
\* table, looks up an absent key until one migration step is left, and then
\* deletes the key of the node at the end of the chain of the last slot of the
\* retiring table (the last key inserted before that table was allocated),
\* which is the one node that migration step leaves behind.
DrainLoad == DrainCap * kMaxLoadFactor

DrainLookups == DrainLoad \div kRehasingWork - 3 - DrainDeletes

DrainScript ==
    [i \in 1..(DrainDeletes + DrainLookups + 1) |->
        IF i <= DrainDeletes
        THEN [name |-> "hm_delete", key |-> DrainCap - 1 - i]
        ELSE IF i <= DrainDeletes + DrainLookups
        THEN [name |-> "lookup", key |-> AbsentKey + DrainLoad]
        ELSE [name |-> "hm_delete", key |-> DrainLoad \div 2 - 1]]

InitDrain ==
    /\ Empty
    /\ hfn = "id"
    /\ load = DrainLoad
    /\ script = DrainScript
    /\ budget = 0

SpecDrain == InitDrain /\ [][Next]_vars

----------------------------------------------------------------------------
(* clear() and the calls a host issues after it.  clear frees the two slot  *)
(* arrays and writes no field of the map (lines 140-141): a pointer that    *)
(* was not null is left dangling.  What a later access to freed storage     *)
(* does is undefined: the calls of Next stand for the outcome in which the  *)
(* freed storage still holds what it held, UseAfterFree for the outcome in  *)
(* which the access is trapped.                                             *)

\* The host is free to choose its next call.
HostFree == ~Loading /\ script = <<>> /\ budget > 0

Dangling(M) ==
    {t \in {"newer", "older"} :
        IF t = "newer" THEN M.newer.tab # NullTab ELSE M.older.tab # NullTab}

Clear ==
    /\ HostFree
    /\ Issued
    \* free(nullptr) does nothing; freeing a dangling pointer again is a
    \* double free, which the allocator may or may not trap
    /\ \/ fault' = fault
       \/ freed # {} /\ fault' = "double free"
    /\ freed' = Dangling(Cur)
    /\ op' = [name |-> "clear", key |-> 0, ret |-> NULL, where |-> "none",
              skips |-> 0, moved |-> 0, ocap |-> OlderCap(Cur), scanned |-> 0,
              chains |-> 0]
    /\ UNCHANGED <<newer, older, migrate_pos, node_next, node_hcode, node_key,
                   removed, cycles, since, call>>

\* An insert, lookup or hm_delete issued while a slot array is dangling
\* reads it (newer.tab[pos] in HTab::insert and HTab::lookup, older.tab in
\* help_rehashing); here the access is trapped.
UseAfterFree ==
    /\ HostFree
    /\ freed # {}
    /\ Issued
    /\ fault' = "access to freed storage"
    /\ UNCHANGED <<newer, older, migrate_pos, node_next, node_hcode, node_key,
                   removed, cycles, since, op, call, freed>>

NextClear ==
    \/ Next
    \/ Clear
    \/ UseAfterFree

SpecClear == Init /\ [][NextClear]_vars

----------------------------------------------------------------------------
(* A bucket table used on its own: the host initialises one HTab (held in  *)
(* newer) with a valid capacity, inserts nodes and traverses it.           *)

\* Capacities that pass the assertion of init.
TabCaps == {n \in 1..4 : InitAssert(n)}

TabRest == <<older, migrate_pos, removed, fault, cycles, since, hfn, load,
             script, budget, call, freed>>

TabInit(n) ==
    /\ newer.tab = NullTab
    /\ newer' = HTab_init(n)
    /\ op' = [name |-> "init", visited |-> <<>>, ret |-> TRUE]
    /\ UNCHANGED <<node_next, node_hcode, node_key>>
    /\ UNCHANGED TabRest

TabInsert(hcode) ==
    LET node == Len(node_key) + 1
        i == HTab_insert(newer, Append(node_next, NULL), node, hcode)
    IN  /\ newer.tab # NullTab
        /\ Len(node_key) < MaxTabNodes
        /\ newer' = i.t
        /\ node_next' = i.next
        /\ node_hcode' = Append(node_hcode, hcode)
        /\ node_key' = Append(node_key, hcode)
        /\ op' = [name |-> "insert", visited |-> <<>>, ret |-> TRUE]
        /\ UNCHANGED TabRest

\* foreach with a visitor that records the node and returns true: the
\* early return of line 83 is never taken, so the call returns true.
TabForeach ==
    /\ newer.tab # NullTab
    /\ op.name # "foreach"
    /\ op' = [name |-> "foreach", visited |-> HTab_foreach(newer, node_next),
              ret |-> TRUE]
    /\ UNCHANGED <<newer, node_next, node_hcode, node_key>>
    /\ UNCHANGED TabRest

InitTab == Empty /\ hfn = "id" /\ load = 0 /\ script = <<>> /\ budget = 0

NextTab ==
    \/ \E n \in TabCaps : TabInit(n)
    \/ \E hcode \in 0..MaxTabHcode : TabInsert(hcode)
    \/ TabForeach

SpecTab == InitTab /\ [][NextTab]_vars

----------------------------------------------------------------------------
(* Vocabulary of the properties *)

\* Nodes inserted and not handed back by hm_delete.
Stored == (1..Len(node_key)) \ removed

\* The node a lookup of key finds in a map whose migration step has run.
Found(H, khcode, key) ==
    LET p == Probe(H, khcode, key)
    IN  IF p.where = "newer" THEN Deref(H.newer, H.next, p.from)
        ELSE IF p.where = "older" THEN Deref(H.older, H.next, p.from)
        ELSE NULL

Matches(r, n) == r # NULL /\ node_hcode[r] = node_hcode[n] /\ node_key[r] = node_key[n]

\* The nodes a full traversal of the two tables visits.
Linked == HTab_visited(newer, node_next) \cup HTab_visited(older, node_next)

Cycling == older.tab # NullTab

----------------------------------------------------------------------------
\* C1 (insert-then-find): in every reachable state, a lookup issued now with
\* the key of any node that was inserted and not deleted returns a node with
\* the same hash code and an equal key, never nullptr, whichever table holds it.
C1_InsertThenFind ==
    LET H == help_rehashing(Cur)
    IN  \A n \in Stored : Matches(Found(H, node_hcode[n], node_key[n]), n)

\* A lookup has just returned a node that sits in the older table.
C1_Witness ==
    /\ op.name = "lookup"
    /\ op.where = "older"
    /\ op.ret \in Stored
    /\ node_key[op.ret] = op.key

----------------------------------------------------------------------------
\* Scenario A has issued all its inserts and none of its lookups.
AfterScenarioInserts ==
    /\ load = ScenarioNodes
    /\ Len(node_key) = ScenarioNodes
    /\ Len(script) = ScenarioLookups
    /\ budget = MaxOps

\* Scenario A has issued all its inserts and all its lookups.
AfterScenarioLookups ==
    /\ load = ScenarioNodes
    /\ Len(node_key) = ScenarioNodes
    /\ script = <<>>
    /\ budget = MaxOps

\* C2 as stated: right after the last insert of scenario A a cycle is active
\* (older table allocated and non-empty) and the newer capacity is 8; after
\* the lookups no cycle is active and size() is the number of nodes inserted.
C2_AsStated ==
    /\ AfterScenarioInserts =>
          /\ older.tab # NullTab
          /\ older.size > 0
          /\ newer.mask + 1 = 8
    /\ AfterScenarioLookups =>
          /\ older = HTabZero
          /\ HMap_size(Cur) = ScenarioNodes

\* C2 (scenario A, amended): the cycle is started by the insert that brings
\* the count to 4 * kMaxLoadFactor = 32 and is drained inside that same call;
\* from then on, through the remaining inserts and every lookup, no cycle is
\* active, the newer capacity is 8 and size() is the number of nodes inserted.
C2_ScenarioA ==
    (load = ScenarioNodes /\ budget = MaxOps) =>
        /\ HMap_size(Cur) = Len(node_key)
        /\ older = HTabZero
        /\ IF Len(node_key) >= InitCap * kMaxLoadFactor
           THEN cycles = 1 /\ newer.mask + 1 = 2 * InitCap
           ELSE cycles = 0

\* Scenario A has run to its end.
C2_Witness ==
    /\ AfterScenarioLookups
    /\ op.name = "lookup"
    /\ newer.size = ScenarioNodes

----------------------------------------------------------------------------
\* C4 as stated: once retiring.capacity / kRehasingWork further calls have
\* been issued after the insert that started a cycle, the older table is
\* drained and freed.
C4_AsStated ==
    ~(Cycling /\ since >= (older.mask + 1) \div kRehasingWork)

\* C4 (migration completion, amended): once (retiring.capacity *
\* kMaxLoadFactor) / kRehasingWork further calls have been issued after the
\* insert that started a cycle, the older table is drained and freed.
C4_MigrationCompletion ==
    ~(Cycling /\ since >= ((older.mask + 1) * kMaxLoadFactor) \div kRehasingWork)

\* A cycle that was still active after the insert that started it has been
\* drained and freed by a later call.
C4_Witness ==
    /\ ~Cycling
    /\ since >= 1
    /\ op.ocap > 0
    /\ op.moved > 0

----------------------------------------------------------------------------
\* C5 (size consistency): in every reachable state size() equals the number
\* of nodes a full foreach visits, and the size field of each table equals
\* the number of nodes foreach visits in that table.
C5_SizeConsistency ==
    /\ HMap_size(Cur) = Len(HMap_foreach(Cur))
    /\ newer.size = Len(HTab_foreach(newer, node_next))
    /\ older.size = Len(HTab_foreach(older, node_next))

\* Both tables hold nodes and a node has just been detached from the older one.
C5_Witness ==
    /\ op.name = "hm_delete"
    /\ op.where = "older"
    /\ older.size > 0
    /\ newer.size > 0

----------------------------------------------------------------------------
\* No stored node carries the key.
KeyAbsent(key) == \A n \in Stored : node_key[n] # key

\* C7 as stated: the work of the last call (empty slots of the older table
\* stepped over, nodes moved, chain nodes compared by its probes) is at most
\* kRehasingWork plus the length of the chains it probed.
C7_AsStated ==
    op.skips + op.moved + op.scanned <= kRehasingWork + op.chains

\* C7 (per-call cost, amended): the last call moved at most kRehasingWork
\* nodes, compared at most as many nodes as the chains it probed hold, and
\* stepped over at most as many empty slots as the older table has slots;
\* the empty slots are not charged to the quota, so the bound is
\* kRehasingWork + older capacity + chain length.
C7_CostBound ==
    /\ op.moved <= kRehasingWork
    /\ op.scanned <= op.chains
    /\ op.skips <= op.ocap
    /\ op.skips + op.moved + op.scanned <= kRehasingWork + op.ocap + op.chains

\* A probing call used the whole quota, stepped over empty slots and
\* compared chain nodes.
C7_Witness ==
    /\ op.name \in {"lookup", "hm_delete"}
    /\ op.moved = kRehasingWork
    /\ op.skips > 0
    /\ op.scanned > 0

----------------------------------------------------------------------------
\* C8 (delete-then-miss): in every reachable state, for every node hm_delete
\* has returned whose key no stored node carries (keys were unique and the
\* key was not inserted again), a lookup issued now with that key returns
\* nullptr.
C8_DeleteThenMiss ==
    LET H == help_rehashing(Cur)
    IN  \A r \in removed :
            KeyAbsent(node_key[r]) => Found(H, node_hcode[r], node_key[r]) = NULL

\* hm_delete has just detached the only node with its key from the older
\* table, in the middle of a cycle.
C8_Witness ==
    /\ op.name = "hm_delete"
    /\ op.where = "older"
    /\ op.ret \in removed
    /\ KeyAbsent(op.key)
    /\ older.size > 0

----------------------------------------------------------------------------
\* C9 (idempotent miss): a hm_delete whose key no stored node carries returns
\* nullptr and leaves size(), the set of nodes linked in the two tables and
\* the set of stored nodes as they were.
C9_IdempotentMiss ==
    [][(op'.name = "hm_delete" /\ KeyAbsent(op'.key)) =>
          /\ op'.ret = NULL
          /\ HMap_size(Cur)' = HMap_size(Cur)
          /\ Linked' = Linked
          /\ removed' = removed]_vars

\* hm_delete has just missed in the middle of a cycle, after its migration
\* step moved nodes.
C9_Witness ==
    /\ op.name = "hm_delete"
    /\ op.ret = NULL
    /\ KeyAbsent(op.key)
    /\ op.moved > 0
    /\ older.size > 0

----------------------------------------------------------------------------
IsPow2(n) == \E e \in 0..30 : n = 2 ^ e

\* C10 (growth doubling): no assertion ever fails, every allocated table has
\* a power-of-two number of slots, the first table has 4, and every call of
\* trigger_rehashing leaves a newer table with exactly twice the slots of the
\* table that became the older one.
C10_GrowthDoubling ==
    /\ [](/\ fault = ""
          /\ newer.tab # NullTab =>
                IsPow2(newer.mask + 1) /\ DOMAIN newer.tab = 0..newer.mask
          /\ older.tab # NullTab =>
                /\ IsPow2(older.mask + 1) /\ DOMAIN older.tab = 0..older.mask
                /\ newer.mask + 1 = 2 * (older.mask + 1))
    /\ [][/\ (newer.tab = NullTab /\ newer'.tab # NullTab) =>
                newer'.mask + 1 = InitCap
          /\ cycles' # cycles =>
                /\ cycles' = cycles + 1
                /\ newer.tab # NullTab
                /\ newer'.mask + 1 = 2 * (newer.mask + 1)
                /\ older'.tab # NullTab => older'.mask = newer.mask]_vars

\* A cycle has been started from a table of 64 slots and is still active.
C10_Witness ==
    /\ older.tab # NullTab
    /\ older.mask + 1 = 64
    /\ newer.mask + 1 = 128
    /\ since = 0

----------------------------------------------------------------------------
\* C3: between public calls the older table's slot array is allocated exactly
\* when the older table's count is greater than zero.
C3_OlderAllocatedIffNonEmpty ==
    (older.tab # NullTab) <=> (older.size > 0)

----------------------------------------------------------------------------
\* C6 (no duplication): in every state, the states between the iterations of
\* a migration step included, the nodes linked in the two tables are exactly
\* the nodes inserted and not deleted, no node is linked in both tables, and
\* a full foreach visits no node twice.
C6_NoDuplication ==
    /\ Linked = Stored
    /\ HTab_visited(newer, node_next) \cap HTab_visited(older, node_next) = {}
    /\ Len(HMap_foreach(Cur)) = Cardinality(Linked)

\* A migration step is under way: it has moved nodes and both tables hold some.
C6_Witness ==
    /\ call.name # "idle"
    /\ call.moved > 0
    /\ older.size > 0
    /\ newer.size > 0

----------------------------------------------------------------------------
\* The nodes 1..n whose hash code selects slot i, the last inserted first
\* (nodes are numbered in the order of their insertion).
RECURSIVE InsertedInSlot(_, _, _)
InsertedInSlot(mask, i, n) ==
    IF n = 0 THEN <<>>
    ELSE (IF BitAnd(node_hcode[n], mask) = i THEN <<n>> ELSE <<>>)
         \o InsertedInSlot(mask, i, n - 1)

\* Slot by slot in increasing index from slot i, newest first in a slot.
RECURSIVE SlotOrder(_, _)
SlotOrder(mask, i) ==
    IF i > mask THEN <<>>
    ELSE InsertedInSlot(mask, i, Len(node_hcode)) \o SlotOrder(mask, i + 1)

\* C11 (bucket table traversal): for a table initialised with any valid
\* capacity, 1 included, a foreach whose visitor never asks to stop visits
\* every inserted node exactly once, slot by slot in increasing index and
\* newest first within a slot, and returns true.
C11_TabTraversal ==
    op.name = "foreach" =>
        /\ op.visited = SlotOrder(newer.mask, 0)
        /\ op.ret = TRUE

----------------------------------------------------------------------------
\* The capacity the newer table has when insert links its node: a table
\* that is not allocated yet is first created with InitCap slots.
LinkCap == IF newer.tab = NullTab THEN InitCap ELSE newer.mask + 1

\* C12 (cycle start condition): a call starts a rehash cycle exactly when it
\* is an insert and, once its node is linked, no older table is allocated
\* and the count of the newer table has reached capacity * kMaxLoadFactor;
\* a call starts at most one cycle, none while an older table is allocated,
\* and no assertion ever fails.
C12_CycleStart ==
    /\ [](fault = "")
    /\ [][/\ cycles' \in {cycles, cycles + 1}
          /\ (cycles' # cycles) <=>
                /\ op'.name = "insert"
                /\ older.tab = NullTab
                /\ newer.size + 1 >= LinkCap * kMaxLoadFactor]_vars

\* An insert has started the cycle that retires the table of 64 slots, and
\* the insert issued next, with that cycle in progress, has started none.
C12_Witness ==
    /\ op.name = "insert"
    /\ Cycling
    /\ since = 1
    /\ older.mask + 1 = 64
    /\ newer.size + older.size = 64 * kMaxLoadFactor + 1

----------------------------------------------------------------------------
Min(a, b) == IF a < b THEN a ELSE b

\* A step inside a call is one iteration of the loop of help_rehashing.
Iterates == call.name # "idle" /\ call'.name # "idle"

\* The step that ends a call: the loop has stopped, the discard and the rest
\* of the calling operation follow.
Ends == call.name # "idle" /\ call'.name = "idle"

\* C13 (bounded migration step): a call never moves more than kRehasingWork
\* nodes; an iteration runs only below the quota with nodes left, on an
\* empty slot it advances the cursor by one and moves nothing, otherwise it
\* moves the head node of the slot to the newer table, counts one unit and
\* leaves the cursor; when the loop stops the call has moved exactly
\* min(kRehasingWork, older count at the start of its migration step), and
\* an older table whose count is zero is reset to the uninitialised state
\* before the call returns.
C13_BoundedStep ==
    /\ [](call.name # "idle" =>
             call.moved <= kRehasingWork /\ call.moved + older.size = call.osize)
    /\ [][/\ Iterates =>
                /\ call.moved < kRehasingWork
                /\ older.size > 0
                /\ IF older.tab[migrate_pos] = NULL
                   THEN /\ migrate_pos' = migrate_pos + 1
                        /\ call'.moved = call.moved
                        /\ <<newer, older, node_next>>' = <<newer, older, node_next>>
                   ELSE LET node == older.tab[migrate_pos]
                        IN  /\ migrate_pos' = migrate_pos
                            /\ call'.moved = call.moved + 1
                            /\ older'.size = older.size - 1
                            /\ older'.tab[migrate_pos] = node_next[node]
                            /\ newer'.size = newer.size + 1
                            /\ newer'.tab[BitAnd(node_hcode[node], newer.mask)] = node
          /\ Ends =>
                /\ call.moved = Min(kRehasingWork, call.osize)
                /\ op'.moved = call.moved
                /\ older.size = 0 => older' = HTabZero]_vars

\* A call has returned whose migration step used the whole quota, stepped
\* over empty slots and left nodes in the older table.
C13_Witness ==
    /\ call.name = "idle"
    /\ op.moved = kRehasingWork
    /\ op.skips > 0
    /\ older.size > 0
----------------------------------------------------------------------------
\* C14 (migration cursor): whenever an older table is allocated,
\* 0 <= migrate_pos <= older capacity; the step in which trigger_rehashing
\* runs leaves migrate_pos at 0; and from one state of a cycle to the next
\* state of the same cycle migrate_pos does not decrease.
C14_MigrationCursor ==
    /\ [](Cycling => migrate_pos \in 0..(older.mask + 1))
    /\ [][/\ cycles' # cycles => migrate_pos' = 0 /\ Cycling'
          /\ (cycles' = cycles /\ Cycling /\ Cycling') =>
                migrate_pos' >= migrate_pos]_vars

\* A later cycle is in progress between two calls and its cursor has left
\* slot 0 behind, after an earlier cycle had moved the cursor as well.
C14_Witness ==
    /\ call.name = "idle"
    /\ Cycling
    /\ cycles > 1
    /\ migrate_pos > 0
    /\ older.size > 0
----------------------------------------------------------------------------
\* C15 (delete removes exactly the matched node): a hm_delete that finds a
\* match returns a node that was stored and carries the key and its hash
\* code, size() goes down by exactly 1, the nodes linked in the two tables
\* are those linked before minus the returned node, a node is returned from
\* the older table only when the newer table holds no node with the key,
\* and in the state the call leaves a lookup finds every node still stored.
C15_DeleteExact ==
    /\ []((op.name = "hm_delete" /\ op.ret # NULL) => C1_InsertThenFind)
    /\ [][(op'.name = "hm_delete" /\ op'.ret # NULL) =>
          /\ op'.ret \in Stored
          /\ node_key[op'.ret] = op'.key
          /\ node_hcode[op'.ret] = Hash(hfn, op'.key)
          /\ HMap_size(Cur)' = HMap_size(Cur) - 1
          /\ Linked' = Linked \ {op'.ret}
          /\ removed' = removed \cup {op'.ret}
          /\ op'.where = "older" =>
                \A n \in HTab_visited(newer, node_next)' :
                    node_key[n] # op'.key]_vars

\* hm_delete has just detached, in the middle of a cycle, a node from the
\* newer table while another stored node carries the same key.
C15_Witness ==
    /\ op.name = "hm_delete"
    /\ op.ret # NULL
    /\ op.where = "newer"
    /\ ~KeyAbsent(op.key)
    /\ older.size > 0
----------------------------------------------------------------------------
----------------------------------------------------------------------------
\* What the loop of help_rehashing can still do: quota units left plus
\* slots of the older table at or after the cursor.
LoopMeasure == (kRehasingWork - call.moved) + (older.mask + 1 - migrate_pos)

\* C17 (cursor scan stays in bounds): no read of older.tab is out of bounds
\* (no fault); with an older table allocated, every slot below migrate_pos
\* is empty and, when the table holds nodes, some slot at or after
\* migrate_pos is not empty; every iteration of the loop reads a slot inside
\* the table and strictly decreases a measure that is never negative, so
\* the loop terminates.
C17_CursorInBounds ==
    /\ [](/\ fault = ""
          /\ Cycling =>
                /\ migrate_pos <= older.mask + 1
                /\ \A i \in 0..(migrate_pos - 1) : older.tab[i] = NULL
                /\ older.size > 0 =>
                      \E i \in migrate_pos..older.mask : older.tab[i] # NULL
                /\ call.name # "idle" => LoopMeasure >= 0)
    /\ [][Iterates =>
              /\ migrate_pos \in DOMAIN older.tab
              /\ LoopMeasure' < LoopMeasure]_vars

\* In the middle of a migration step the cursor stands on a slot it has
\* emptied, with nodes left further on.
C17_Witness ==
    /\ call.name # "idle"
    /\ Cycling
    /\ migrate_pos \in 1..older.mask
    /\ older.tab[migrate_pos] = NULL
    /\ older.size > 0
----------------------------------------------------------------------------
\* Every node linked in table t is in the chain of slot hcode & mask, and
\* the slot array has mask + 1 slots.
PlacedIn(t) ==
    t.tab # NullTab =>
        /\ DOMAIN t.tab = 0..t.mask
        /\ \A i \in 0..t.mask :
              \A n \in ChainSet(node_next, t.tab[i]) :
                  BitAnd(node_hcode[n], t.mask) = i

\* C18 (slot placement): in every state, the states inside a migration step
\* included, every node linked in the newer or in the older table is in the
\* chain of slot (hcode & mask) of that table, mask being its capacity - 1.
C18_SlotPlacement == PlacedIn(newer) /\ PlacedIn(older)

\* A migration step has re-linked a node into a slot of the newer table
\* whose index differs from the index of the slot it had in the older one.
C18_Witness ==
    /\ call.name # "idle"
    /\ call.moved > 0
    /\ older.size > 0
    /\ \E i \in 0..newer.mask :
          /\ newer.tab[i] # NULL
          /\ i > older.mask
----------------------------------------------------------------------------
\* C19 (lookup preserves contents): a lookup, found or not, leaves size(),
\* the set of nodes linked in the two tables, the nodes handed back by
\* hm_delete, the nodes' keys and hash codes, the newer table's slot count
\* and the number of cycles started as they were; the older table keeps its
\* slot count or, when the call moved all the nodes it held, is released.
C19_LookupFrame ==
    [][op'.name = "lookup" =>
          /\ HMap_size(Cur)' = HMap_size(Cur)
          /\ Linked' = Linked
          /\ removed' = removed
          /\ <<node_key, node_hcode, cycles>>' = <<node_key, node_hcode, cycles>>
          /\ newer'.mask = newer.mask
          /\ (newer'.tab = NullTab) <=> (newer.tab = NullTab)
          /\ newer'.size = newer.size + op'.moved
          /\ older'.size = older.size - op'.moved
          /\ IF older.tab # NullTab /\ older.size = op'.moved
             THEN older' = HTabZero
             ELSE older'.mask = older.mask /\ DOMAIN older'.tab = DOMAIN older.tab
          /\ migrate_pos' = migrate_pos + op'.skips]_vars

\* A lookup that found its node in the newer table has just moved the last
\* nodes of the older table and released it.
C19_Witness ==
    /\ op.name = "lookup"
    /\ op.ret # NULL
    /\ op.moved > 0
    /\ op.ocap > 0
    /\ older = HTabZero
----------------------------------------------------------------------------
\* C20 (clear resets the map): in the state clear() leaves, both tables are
\* in the uninitialised state and size() is 0; no table ever points at
\* storage that was released, and no call ever touches released storage.
C20_ClearResets ==
    /\ op.name = "clear" =>
          /\ newer = HTabZero
          /\ older = HTabZero
          /\ HMap_size(Cur) = 0
    /\ freed = {}
    /\ fault = ""

====
